---- MODULE Spec2Model ----
(***************************************************************************)
(* Model of hotel/pms_systems.py: the PMS adapter contract, the Mews        *)
(* adapter (PMS_Mews), the adapter registry get_pms and the helper          *)
(* validate_phone_number.  The Django stores (Hotel, Stay, Guest) and the   *)
(* external reservation service are the environment of the adapter.        *)
(*                                                                         *)
(* Python strings that the code inspects character by character (class and *)
(* adapter names, phone numbers) are sequences of one-character strings.    *)
(* Python return values are the strings "True", "False", "None", "dict",    *)
(* "instance" or "raise <exception>".                                       *)
(***************************************************************************)
EXTENDS Integers, Sequences, FiniteSets, TLC

VARIABLES hotels, stays, guests, next_stay_id, next_guest_id,
          pc, op, ret, load,
          id_hotel, hotel, events, i, res_id, res_details, guest_id,
          guest_details, writes, failed_at, fresh,
          pms_tomorrow, rec, mode, log, snap,
          name_arg, adapter, name_out

vars == <<hotels, stays, guests, next_stay_id, next_guest_id,
          pc, op, ret, load,
          id_hotel, hotel, events, i, res_id, res_details, guest_id,
          guest_details, writes, failed_at, fresh,
          pms_tomorrow, rec, mode, log, snap,
          name_arg, adapter, name_out>>

store == <<hotels, stays, guests, next_stay_id, next_guest_id>>
locals == <<hotel, events, i, res_id, res_details, guest_id, guest_details>>
history == <<id_hotel, writes, failed_at, fresh>>
registry == <<name_arg, adapter, name_out>>
replay == <<rec, mode, log, snap>>

----------------------------------------------------------------------------
(* Bounds of the model. *)
MaxLoad == 2        \* events delivered to handle_webhook in one behaviour
MaxRepeat == 1      \* events in a payload that is delivered twice
MaxNameLen == 4     \* characters of a name given to get_pms

(* The values the payloads and the external service draw from.  Hotel 1 is  *)
(* in the Hotel store, hotel 2 is not.                                      *)
KnownHotelIds == {1}
HotelIds == {1, 2}
ReservationIds == {1, 2}
GuestIds == {1, 2}
Dates == {1}
Statuses == {"confirmed", "cancelled"}
GuestNames == {"Ann", "Bob"}

----------------------------------------------------------------------------
(* Character strings. *)
LowerOf == [c \in {"M", "E", "W", "S", "N", "m", "e", "w", "s", "n"} |->
              CASE c = "M" -> "m" [] c = "E" -> "e" [] c = "W" -> "w"
                [] c = "S" -> "s" [] c = "N" -> "n" [] OTHER -> c]
UpperOf == [c \in {"M", "E", "W", "S", "N", "m", "e", "w", "s", "n"} |->
              CASE c = "m" -> "M" [] c = "e" -> "E" [] c = "w" -> "W"
                [] c = "s" -> "S" [] c = "n" -> "N" [] OTHER -> c]
Letters == DOMAIN LowerOf

\* str.lower / str.upper of one character; characters without case are kept
Lower(c) == IF c \in Letters THEN LowerOf[c] ELSE c
Upper(c) == IF c \in Letters THEN UpperOf[c] ELSE c

\* capitalize that leaves the characters after the first as they are
Capitalize_FirstOnly(s) ==
  [k \in 1 .. Len(s) |-> IF k = 1 THEN Upper(s[k]) ELSE s[k]]

\* str.capitalize: first character upper-cased, all others lower-cased
Capitalize(s) ==
  [k \in 1 .. Len(s) |-> IF k = 1 THEN Upper(s[k]) ELSE Lower(s[k])]

PMS_Prefix == <<"P", "M", "S", "_">>
PMS_Mews == <<"P", "M", "S", "_", "M", "e", "w", "s">>

\* the classes inspect.getmembers finds in the module: the imported ones
\* and the two defined in it
clsnames == { <<"A", "B", "C">>,
              <<"A", "P", "I", "E", "r", "r", "o", "r">>,
              <<"G", "u", "e", "s", "t">>,
              <<"H", "o", "t", "e", "l">>,
              <<"P", "M", "S">>,
              PMS_Mews,
              <<"S", "t", "a", "y">> }

\* the value False of get_pms, which is no class name
NoAdapter == <<>>

\* PMS.name: the class name without its first four characters
name(cls) == SubSeq(cls, 5, Len(cls))

\* get_pms: an instance of the class "PMS_" + name.capitalize(), else False
get_pms(n) ==
  LET fullname == PMS_Prefix \o Capitalize(n)
  IN  IF fullname \in clsnames THEN fullname ELSE NoAdapter

----------------------------------------------------------------------------
(* Phone numbers and validate_phone_number. *)
Digits == {"0", "1", "2", "3", "4", "5", "6", "7", "8", "9"}
PhoneValid == <<"+", "1", "4", "1", "5", "5", "5", "5", "2", "6", "7", "1">>
PhoneText == <<"a", "b", "c">>
Phones == {PhoneValid, PhoneText}

\* phonenumbers.parse(number, None): without a region the number must be in
\* international form; anything else raises NumberParseException
ParseRaises(phone) ==
  \/ Len(phone) < 2
  \/ phone[1] # "+"
  \/ \E k \in 2 .. Len(phone) : phone[k] \notin Digits

\* phonenumbers.is_valid_number for the +1 numbering plan: ten national
\* digits, area code and exchange code not starting with 0 or 1
IsValidNumber(phone) ==
  /\ Len(phone) = 12
  /\ phone[2] = "1"
  /\ phone[3] \notin {"0", "1"}
  /\ phone[6] \notin {"0", "1"}

validate_phone_number(phone) ==
  IF ParseRaises(phone) THEN FALSE ELSE IsValidNumber(phone)

----------------------------------------------------------------------------
(* JSON texts: a well-formed object text is the sequence of its members in  *)
(* document order; json.loads keeps the last value of a repeated key.       *)
JsonText(members) == [wf |-> TRUE, members |-> members]
Malformed == [wf |-> FALSE, members |-> <<>>]

Keys(text) == { text.members[k][1] : k \in 1 .. Len(text.members) }
LastValue(text, key) ==
  LET at == { k \in 1 .. Len(text.members) : text.members[k][1] = key }
      last == CHOOSE k \in at : \A j \in at : j <= k
  IN  text.members[last][2]

\* json.loads
json_loads(text) == [key \in Keys(text) |-> LastValue(text, key)]

PyBool(b) == IF b THEN "True" ELSE "False"

----------------------------------------------------------------------------
(* The external reservation service (hotel.external_api). *)
ResDetails ==
  { [GuestId |-> g, CheckInDate |-> d, CheckOutDate |-> d + 2,
     Status |-> s, BreakfastIncluded |-> b] :
      g \in GuestIds, d \in Dates, s \in Statuses, b \in BOOLEAN }
GuestDetails == { [Phone |-> p, Name |-> n] : p \in Phones, n \in GuestNames }

\* json.dumps of the two kinds of record the service returns
DumpsReservation(d) ==
  JsonText(<< <<"GuestId", d.GuestId>>, <<"CheckInDate", d.CheckInDate>>,
              <<"CheckOutDate", d.CheckOutDate>>, <<"Status", d.Status>>,
              <<"BreakfastIncluded", d.BreakfastIncluded>> >>)
DumpsGuest(d) == JsonText(<< <<"Phone", d.Phone>>, <<"Name", d.Name>> >>)

\* a call of the service returns a JSON text or raises APIError
APIError == [error |-> TRUE, text |-> Malformed]
Returns(text) == [error |-> FALSE, text |-> text]
ReservationResponses ==
  {APIError} \cup { Returns(DumpsReservation(d)) : d \in ResDetails }
GuestResponses == {APIError} \cup { Returns(DumpsGuest(d)) : d \in GuestDetails }

----------------------------------------------------------------------------
(* Inbound webhook payloads. *)
EventOf(r) == [Value |-> [ReservationId |-> r]]
EventLists(max) ==
  UNION { { [k \in 1 .. n |-> EventOf(f[k])] : f \in [1 .. n -> ReservationIds] } :
            n \in 0 .. max }
DumpsWebhook(h, evs) == JsonText(<< <<"HotelId", h>>, <<"Events", evs>> >>)
RawPayloads(max) ==
  {Malformed} \cup { DumpsWebhook(h, evs) : h \in HotelIds, evs \in EventLists(max) }

\* PMS_Mews.clean_webhook_payload: the dict, or ValueError
clean_webhook_payload_raises(payload) == ~payload.wf
clean_webhook_payload(payload) == json_loads(payload)

\* the dicts clean_webhook_payload makes of the well-formed payloads
Payloads(max) ==
  { clean_webhook_payload(p) :
      p \in { q \in RawPayloads(max) : ~clean_webhook_payload_raises(q) } }

----------------------------------------------------------------------------
(* Values of variables that hold nothing. *)
NoGuest == 0
NoHotel == [id |-> 0, pms_hotel_id |-> 0]
NoReservation == [GuestId |-> 0, CheckInDate |-> 0, CheckOutDate |-> 0,
                  Status |-> "", BreakfastIncluded |-> FALSE]
NoGuestDetails == [Phone |-> <<>>, Name |-> ""]
NoSnap == [stays |-> {}, guests |-> {}]

----------------------------------------------------------------------------
(* The Django stores. *)

\* setattr of every default on a model instance
Merge(obj, defaults) ==
  [f \in (DOMAIN obj) \cup (DOMAIN defaults) |->
     IF f \in DOMAIN defaults THEN defaults[f] ELSE obj[f]]

\* Model.save of an existing row
Save(rows, obj) == { r \in rows : r.id # obj.id } \cup {obj}

\* Hotel.objects.get(pms_hotel_id = ...)
HotelGet(pms_id) == { h \in hotels : h.pms_hotel_id = pms_id }

\* defaults with the two dates exchanged
StayDefaults_Swapped(rd) ==
  [checkin |-> rd.CheckOutDate, checkout |-> rd.CheckInDate, status |-> rd.Status]

\* defaults that also store the breakfast flag
StayDefaults_WithBreakfast(rd) ==
  [checkin |-> rd.CheckInDate, checkout |-> rd.CheckOutDate, status |-> rd.Status,
   breakfast |-> rd.BreakfastIncluded]

\* the defaults of the Stay upsert
StayDefaults(rd) ==
  [checkin |-> rd.CheckInDate, checkout |-> rd.CheckOutDate, status |-> rd.Status]

\* the defaults of the Guest upsert
GuestDefaults(gd) == [name |-> gd.Name]

\* an upsert keyed by (hotel, pms_reservation_id) that replaces the row of a
\* reservation whose guest has changed
StayUpdateOrCreate_ReplaceReservation(rows, next_id, h, rid, gid, defaults) ==
  LET kept == { s \in rows : ~(/\ s.hotel = h.id
                                /\ s.pms_reservation_id = rid
                                /\ s.pms_guest_id # gid) }
      match == { s \in kept : s.hotel = h.id /\ s.pms_reservation_id = rid }
      fresh_row == Merge([id |-> next_id, hotel |-> h.id, pms_reservation_id |-> rid,
                          pms_guest_id |-> gid, guest |-> NoGuest], defaults)
  IN  IF match = {}
        THEN [raised |-> FALSE, rows |-> kept \cup {fresh_row}, obj |-> fresh_row,
              next_id |-> next_id + 1]
        ELSE LET old == CHOOSE s \in match : TRUE
                 new == Merge(old, defaults)
             IN  [raised |-> FALSE, rows |-> Save(kept, new), obj |-> new,
                  next_id |-> next_id]

\* Stay.objects.update_or_create(hotel, pms_reservation_id, pms_guest_id, defaults)
StayUpdateOrCreate(rows, next_id, h, rid, gid, defaults) ==
  LET match == { s \in rows : /\ s.hotel = h.id
                              /\ s.pms_reservation_id = rid
                              /\ s.pms_guest_id = gid }
      fresh_row == Merge([id |-> next_id, hotel |-> h.id, pms_reservation_id |-> rid,
                          pms_guest_id |-> gid, guest |-> NoGuest], defaults)
  IN  CASE Cardinality(match) > 1 ->
             [raised |-> TRUE, rows |-> rows, obj |-> fresh_row, next_id |-> next_id]
        [] match = {} ->
             [raised |-> FALSE, rows |-> rows \cup {fresh_row}, obj |-> fresh_row,
              next_id |-> next_id + 1]
        [] OTHER ->
             LET old == CHOOSE s \in match : TRUE
                 new == Merge(old, defaults)
             IN  [raised |-> FALSE, rows |-> Save(rows, new), obj |-> new,
                  next_id |-> next_id]

\* Guest.objects.create in place of the upsert
GuestUpdateOrCreate_AlwaysCreate(rows, next_id, phone, defaults) ==
  LET fresh_row == Merge([id |-> next_id, phone |-> phone], defaults)
  IN  [raised |-> FALSE, rows |-> rows \cup {fresh_row}, obj |-> fresh_row,
       next_id |-> next_id + 1]

\* Guest.objects.update_or_create(phone, defaults)
GuestUpdateOrCreate(rows, next_id, phone, defaults) ==
  LET match == { g \in rows : g.phone = phone }
      fresh_row == Merge([id |-> next_id, phone |-> phone], defaults)
  IN  CASE Cardinality(match) > 1 ->
             [raised |-> TRUE, rows |-> rows, obj |-> fresh_row, next_id |-> next_id]
        [] match = {} ->
             [raised |-> FALSE, rows |-> rows \cup {fresh_row}, obj |-> fresh_row,
              next_id |-> next_id + 1]
        [] OTHER ->
             LET old == CHOOSE g \in match : TRUE
                 new == Merge(old, defaults)
             IN  [raised |-> FALSE, rows |-> Save(rows, new), obj |-> new,
                  next_id |-> next_id]

\* an event loop body that writes the Guest only when the phone is valid
HandleEvent_SkipInvalid(srows, grows, nsid, ngid, h, rid, rd, gd) ==
  LET s == StayUpdateOrCreate(srows, nsid, h, rid, rd.GuestId, StayDefaults(rd))
      phone == gd.Phone
      g == GuestUpdateOrCreate(grows, ngid, phone, GuestDefaults(gd))
      linked == [s.obj EXCEPT !.guest = g.obj.id]
  IN  IF validate_phone_number(phone)
        THEN [raised |-> FALSE, stays |-> Save(s.rows, linked), guests |-> g.rows,
              next_stay_id |-> s.next_id, next_guest_id |-> g.next_id]
        ELSE [raised |-> FALSE, stays |-> s.rows, guests |-> grows,
              next_stay_id |-> s.next_id, next_guest_id |-> ngid]

\* the body of the event loop after both lookups: upsert the Stay, validate
\* the phone (the result is dropped), upsert the Guest, link and save
HandleEvent(srows, grows, nsid, ngid, h, rid, rd, gd) ==
  LET s == StayUpdateOrCreate(srows, nsid, h, rid, rd.GuestId, StayDefaults(rd))
      phone == gd.Phone
      is_valid == validate_phone_number(phone)
      g == GuestUpdateOrCreate(grows, ngid, phone, GuestDefaults(gd))
      linked == [s.obj EXCEPT !.guest = g.obj.id]
  IN  CASE s.raised ->
             [raised |-> TRUE, stays |-> srows, guests |-> grows,
              next_stay_id |-> nsid, next_guest_id |-> ngid]
        [] ~s.raised /\ g.raised ->
             [raised |-> TRUE, stays |-> s.rows, guests |-> grows,
              next_stay_id |-> s.next_id, next_guest_id |-> ngid]
        [] OTHER ->
             [raised |-> FALSE, stays |-> Save(s.rows, linked), guests |-> g.rows,
              next_stay_id |-> s.next_id, next_guest_id |-> g.next_id]

----------------------------------------------------------------------------
(* State after construction: the hotels are set up, no Stay and no Guest is *)
(* stored, the Mews adapter is in use and no call is in progress.           *)
HotelRows == { [id |-> h, pms_hotel_id |-> h] : h \in KnownHotelIds }

InitStore ==
  /\ hotels = HotelRows
  /\ stays = {}
  /\ guests = {}
  /\ next_stay_id = 1
  /\ next_guest_id = 1

InitCall ==
  /\ pc = "idle"
  /\ op = "init"
  /\ ret = "None"
  /\ load = 0
  /\ id_hotel = 0
  /\ hotel = NoHotel
  /\ events = <<>>
  /\ i = 0
  /\ res_id = 0
  /\ res_details = NoReservation
  /\ guest_id = 0
  /\ guest_details = NoGuestDetails
  /\ writes = 0
  /\ failed_at = 0
  /\ fresh = FALSE
  /\ pms_tomorrow = {}
  /\ mode = "live"
  /\ log = <<>>
  /\ snap = NoSnap

Init ==
  /\ InitStore
  /\ InitCall
  /\ rec = FALSE
  /\ name_arg = <<"m", "e", "w", "s">>
  /\ adapter = get_pms(name_arg)
  /\ name_out = name(adapter)

\* the locals of handle_webhook are gone when a call returns
DropLocals ==
  /\ hotel' = NoHotel
  /\ events' = <<>>
  /\ i' = 0
  /\ res_id' = 0
  /\ res_details' = NoReservation
  /\ guest_id' = 0
  /\ guest_details' = NoGuestDetails

\* what is remembered of the last handle_webhook call
NoHistory ==
  /\ id_hotel' = 0
  /\ writes' = 0
  /\ failed_at' = 0
  /\ fresh' = FALSE

CanCall == pc = "idle" /\ adapter = PMS_Mews

----------------------------------------------------------------------------
(* PMS_Mews.clean_webhook_payload on an inbound payload. *)
CleanWebhookPayload ==
  /\ CanCall
  /\ op \in {"get_pms", "name"}
  /\ \E payload \in RawPayloads(MaxLoad) :
       /\ ret' = IF clean_webhook_payload_raises(payload)
                   THEN "raise ValueError" ELSE "dict"
       /\ events' = IF clean_webhook_payload_raises(payload)
                      THEN <<>> ELSE clean_webhook_payload(payload)["Events"]
       /\ id_hotel' = IF clean_webhook_payload_raises(payload)
                        THEN 0 ELSE clean_webhook_payload(payload)["HotelId"]
  /\ op' = "clean_webhook_payload"
  /\ UNCHANGED <<store, pc, load, hotel, i, res_id, res_details, guest_id,
                 guest_details, writes, failed_at, fresh, pms_tomorrow, replay,
                 registry>>

----------------------------------------------------------------------------
(* PMS_Mews.handle_webhook. *)

\* the return of the method, line 136
ReturnTrue ==
  /\ pc' = "idle"
  /\ ret' = "True"
  /\ DropLocals

\* a return by an exception that is not caught
Raise(exception) ==
  /\ pc' = "idle"
  /\ ret' = exception
  /\ DropLocals

\* an except clause that skips the event and goes on with the next one
OnAPIError_Continue ==
  /\ IF i + 1 > Len(events)
       THEN ReturnTrue
       ELSE /\ pc' = "get_reservation_details"
            /\ i' = i + 1
            /\ UNCHANGED <<ret, hotel, events, res_id, res_details, guest_id,
                           guest_details>>
  /\ UNCHANGED <<store, writes>>

\* no except clause: APIError leaves the method
OnAPIError_Reraise ==
  /\ Raise("raise APIError")
  /\ UNCHANGED <<store, writes>>

\* except APIError: the error is printed and the method returns True
OnAPIError ==
  /\ ReturnTrue
  /\ UNCHANGED <<store, writes>>

\* lines 96-101: the hotel lookup and the entry of the event loop
StartHandleWebhook(webhook_data) ==
  LET found == HotelGet(webhook_data["HotelId"])
  IN  /\ op' = "handle_webhook"
      /\ id_hotel' = webhook_data["HotelId"]
      /\ fresh' = (stays = {} /\ guests = {})
      /\ writes' = 0
      /\ failed_at' = 0
      /\ pms_tomorrow' = {}
      /\ CASE found = {} -> Raise("raise Hotel.DoesNotExist")
           [] Cardinality(found) > 1 -> Raise("raise Hotel.MultipleObjectsReturned")
           [] OTHER ->
                IF webhook_data["Events"] = <<>>
                  THEN ReturnTrue
                  ELSE /\ pc' = "get_reservation_details"
                       /\ ret' = "None"
                       /\ hotel' = CHOOSE h \in found : TRUE
                       /\ events' = webhook_data["Events"]
                       /\ i' = 1
                       /\ res_id' = 0
                       /\ res_details' = NoReservation
                       /\ guest_id' = 0
                       /\ guest_details' = NoGuestDetails
      /\ UNCHANGED <<store, rec, registry>>

\* a delivery: a cleaned payload is handed to handle_webhook
HandleWebhook ==
  /\ CanCall
  /\ mode = "live"
  /\ \E webhook_data \in Payloads(IF rec THEN MaxRepeat ELSE MaxLoad) :
       /\ rec \/ load + Len(webhook_data["Events"]) <= MaxLoad
       /\ load' = load + Len(webhook_data["Events"])
       /\ log' = IF rec THEN <<Returns(DumpsWebhook(webhook_data["HotelId"],
                                                    webhook_data["Events"]))>>
                        ELSE log
       /\ StartHandleWebhook(webhook_data)
  /\ mode' = IF rec THEN "recorded" ELSE "live"
  /\ UNCHANGED snap

\* the responses the service can give to the next lookup: any, or the
\* recorded one when a delivery is repeated
Answers(all) == IF mode = "replay" THEN {Head(log)} ELSE all
Logged(resp) ==
  CASE mode = "replay" -> Tail(log)
    [] mode = "recorded" -> Append(log, resp)
    [] OTHER -> log

\* lines 103-105: get_reservation_details of the event's reservation
GetReservationDetails ==
  /\ pc = "get_reservation_details"
  /\ \E resp \in Answers(ReservationResponses) :
       /\ ~resp.error
       /\ log' = Logged(resp)
       /\ res_id' = events[i]["Value"]["ReservationId"]
       /\ res_details' = clean_webhook_payload(resp.text)
       /\ guest_id' = clean_webhook_payload(resp.text)["GuestId"]
  /\ pc' = "get_guest_details"
  /\ UNCHANGED <<store, op, ret, load, hotel, events, i, guest_details, history,
                 pms_tomorrow, rec, mode, snap, registry>>

GetReservationDetailsFails ==
  /\ pc = "get_reservation_details"
  /\ \E resp \in Answers(ReservationResponses) :
       /\ resp.error
       /\ log' = Logged(resp)
  /\ failed_at' = i
  /\ OnAPIError
  /\ UNCHANGED <<op, load, id_hotel, fresh, pms_tomorrow, rec, mode, snap,
                 registry>>

\* line 106: get_guest_details of the reservation's guest
GetGuestDetails ==
  /\ pc = "get_guest_details"
  /\ \E resp \in Answers(GuestResponses) :
       /\ ~resp.error
       /\ log' = Logged(resp)
       /\ guest_details' = clean_webhook_payload(resp.text)
  /\ pc' = "update_or_create"
  /\ UNCHANGED <<store, op, ret, load, hotel, events, i, res_id, res_details,
                 guest_id, history, pms_tomorrow, rec, mode, snap, registry>>

GetGuestDetailsFails ==
  /\ pc = "get_guest_details"
  /\ \E resp \in Answers(GuestResponses) :
       /\ resp.error
       /\ log' = Logged(resp)
  /\ failed_at' = i
  /\ OnAPIError
  /\ UNCHANGED <<op, load, id_hotel, fresh, pms_tomorrow, rec, mode, snap,
                 registry>>

\* lines 109-133: the writes of the event, then the next event or the return
UpdateOrCreate ==
  /\ pc = "update_or_create"
  /\ LET done == HandleEvent(stays, guests, next_stay_id, next_guest_id,
                             hotel, res_id, res_details, guest_details)
     IN  /\ stays' = done.stays
         /\ guests' = done.guests
         /\ next_stay_id' = done.next_stay_id
         /\ next_guest_id' = done.next_guest_id
         /\ CASE done.raised ->
                   /\ Raise("raise MultipleObjectsReturned")
                   /\ writes' = writes
              [] ~done.raised /\ i + 1 > Len(events) ->
                   /\ ReturnTrue
                   /\ writes' = writes + 1
              [] OTHER ->
                   /\ pc' = "get_reservation_details"
                   /\ i' = i + 1
                   /\ writes' = writes + 1
                   /\ UNCHANGED <<ret, hotel, events, res_id, res_details,
                                  guest_id, guest_details>>
  /\ UNCHANGED <<hotels, op, load, id_hotel, failed_at, fresh, pms_tomorrow,
                 replay, registry>>

\* the PMS delivers the same webhook again and the service answers as before
Redeliver ==
  /\ CanCall
  /\ op = "handle_webhook"
  /\ mode = "recorded"
  /\ mode' = "replay"
  /\ snap' = [stays |-> stays, guests |-> guests]
  /\ log' = Tail(log)
  /\ load' = load
  /\ StartHandleWebhook(clean_webhook_payload(Head(log).text))

----------------------------------------------------------------------------
(* PMS_Mews.update_tomorrows_stays: returns True.  pms_tomorrow is what     *)
(* get_reservations_between_dates holds for tomorrow during the call.       *)
UpdateTomorrowsStays ==
  /\ CanCall
  /\ mode = "live"
  /\ \E rs \in SUBSET ReservationIds : pms_tomorrow' = rs
  /\ op' = "update_tomorrows_stays"
  /\ ret' = "True"
  /\ DropLocals
  /\ NoHistory
  /\ UNCHANGED <<store, pc, load, replay, registry>>

----------------------------------------------------------------------------
(* PMS_Mews.stay_has_breakfast.  After the lookup the call is at its return *)
(* statement, or in its except clause when the lookup raised APIError.      *)
\* an except clause that answers False
stay_has_breakfast_FalseOnError(at, details) ==
  IF at = "except_breakfast" THEN "False" ELSE PyBool(details["BreakfastIncluded"])

stay_has_breakfast(at, details) ==
  IF at = "except_breakfast" THEN "None" ELSE PyBool(details["BreakfastIncluded"])

\* lines 144-146: get_reservation_details of the stay's reservation
StayHasBreakfast ==
  /\ CanCall
  /\ mode = "live"
  /\ \E stay \in stays, resp \in ReservationResponses :
       /\ res_id' = stay.pms_reservation_id
       /\ res_details' = IF resp.error THEN NoReservation
                                       ELSE clean_webhook_payload(resp.text)
       /\ pc' = IF resp.error THEN "except_breakfast" ELSE "return_breakfast"
  /\ op' = "stay_has_breakfast"
  /\ ret' = "None"
  /\ hotel' = NoHotel
  /\ events' = <<>>
  /\ i' = 0
  /\ guest_id' = 0
  /\ guest_details' = NoGuestDetails
  /\ pms_tomorrow' = {}
  /\ NoHistory
  /\ UNCHANGED <<store, load, replay, registry>>

\* lines 147-149: the return of the flag, or of None after the except clause
StayHasBreakfastReturns ==
  /\ pc \in {"return_breakfast", "except_breakfast"}
  /\ pc' = "idle"
  /\ ret' = stay_has_breakfast(pc, res_details)
  /\ DropLocals
  /\ UNCHANGED <<store, op, load, history, pms_tomorrow, replay, registry>>

----------------------------------------------------------------------------
Next ==
  \/ HandleWebhook
  \/ GetReservationDetails
  \/ GetReservationDetailsFails
  \/ GetGuestDetails
  \/ GetGuestDetailsFails
  \/ UpdateOrCreate
  \/ UpdateTomorrowsStays
  \/ StayHasBreakfast
  \/ StayHasBreakfastReturns

Spec == Init /\ [][Next]_vars

----------------------------------------------------------------------------
(* Repeated delivery: the store is empty or holds what one handled event   *)
(* leaves, one payload is delivered and handled, then delivered again with  *)
(* the service answering every lookup as it did the first time.             *)
EmptyStore ==
  [stays |-> {}, guests |-> {}, next_stay_id |-> 1, next_guest_id |-> 1]
SeedStores ==
  {EmptyStore} \cup
  { LET done == HandleEvent({}, {}, 1, 1, h, rid, rd, gd)
    IN  [stays |-> done.stays, guests |-> done.guests,
         next_stay_id |-> done.next_stay_id,
         next_guest_id |-> done.next_guest_id] :
      h \in HotelRows, rid \in ReservationIds, rd \in ResDetails,
      gd \in GuestDetails }

InitIdem ==
  /\ hotels = HotelRows
  /\ \E st \in SeedStores :
       /\ stays = st.stays
       /\ guests = st.guests
       /\ next_stay_id = st.next_stay_id
       /\ next_guest_id = st.next_guest_id
  /\ InitCall
  /\ rec = TRUE
  /\ name_arg = <<"m", "e", "w", "s">>
  /\ adapter = get_pms(name_arg)
  /\ name_out = name(adapter)

NextIdem ==
  \/ HandleWebhook
  \/ GetReservationDetails
  \/ GetReservationDetailsFails
  \/ GetGuestDetails
  \/ GetGuestDetailsFails
  \/ UpdateOrCreate
  \/ Redeliver

SpecIdem == InitIdem /\ [][NextIdem]_vars

----------------------------------------------------------------------------
(* The adapter registry: get_pms on a name, then the name property and      *)
(* clean_webhook_payload of the adapter it returned.                        *)
NameAlphabet == {"m", "e", "w", "s", "M", "E", "W", "S"}
Nonexistent == <<"n", "o", "n", "e", "x", "i", "s", "t", "e", "n", "t">>
Names ==
  {Nonexistent} \cup UNION { [1 .. n -> NameAlphabet] : n \in 0 .. MaxNameLen }

InitRegistry ==
  /\ InitStore
  /\ InitCall
  /\ rec = FALSE
  /\ name_arg \in Names
  /\ adapter = NoAdapter
  /\ name_out = <<>>

GetPms ==
  /\ pc = "idle"
  /\ op = "init"
  /\ adapter' = get_pms(name_arg)
  /\ ret' = IF get_pms(name_arg) = NoAdapter THEN "False" ELSE "instance"
  /\ op' = "get_pms"
  /\ UNCHANGED <<store, pc, load, locals, history, pms_tomorrow, replay,
                 name_arg, name_out>>

ReadName ==
  /\ pc = "idle"
  /\ op = "get_pms"
  /\ adapter # NoAdapter
  /\ name_out' = name(adapter)
  /\ op' = "name"
  /\ UNCHANGED <<store, pc, ret, load, locals, history, pms_tomorrow, replay,
                 name_arg, adapter>>

NextRegistry ==
  \/ GetPms
  \/ ReadName
  \/ CleanWebhookPayload

SpecRegistry == InitRegistry /\ [][NextRegistry]_vars

----------------------------------------------------------------------------
(* Properties. *)

\* C1: a handle_webhook call that starts on an empty store with a known
\* hotel and one event whose two lookups succeed returns True and leaves
\* exactly one Stay, keyed by (hotel, reservation id, guest id) with the
\* fetched checkin, checkout and status, and exactly one Guest with the
\* fetched phone and name, which the Stay refers to.
C1_OneEventOneStayOneGuest ==
  [][ (pc = "update_or_create" /\ fresh /\ Len(events) = 1) =>
        /\ pc' = "idle"
        /\ ret' = "True"
        /\ \E s \in stays', g \in guests' :
             /\ stays' = {s}
             /\ guests' = {g}
             /\ hotel.pms_hotel_id = id_hotel
             /\ s.hotel = hotel.id
             /\ s.pms_reservation_id = events[1]["Value"]["ReservationId"]
             /\ s.pms_guest_id = res_details["GuestId"]
             /\ s.checkin = res_details["CheckInDate"]
             /\ s.checkout = res_details["CheckOutDate"]
             /\ s.status = res_details["Status"]
             /\ g.phone = guest_details["Phone"]
             /\ g.name = guest_details["Name"]
             /\ s.guest = g.id ]_vars

C1_Witness ==
  /\ pc = "idle"
  /\ op = "handle_webhook"
  /\ fresh
  /\ load = 1
  /\ writes = 1
  /\ ret = "True"
  /\ Cardinality(stays) = 1
  /\ Cardinality(guests) = 1

\* C2: no two Stays share a (hotel, reservation id, guest id) key and no two
\* Guests share a phone, and when a delivery is repeated with the same
\* payload and the same answers of the service, the Stay and Guest records
\* after the second call are those after the first call.
C2_RedeliveryIdempotent ==
  /\ \A s, t \in stays :
       (/\ s.hotel = t.hotel
        /\ s.pms_reservation_id = t.pms_reservation_id
        /\ s.pms_guest_id = t.pms_guest_id) => s = t
  /\ \A g, h \in guests : g.phone = h.phone => g = h
  /\ (pc = "idle" /\ mode = "replay") =>
        (stays = snap.stays /\ guests = snap.guests)

C2_Witness ==
  /\ pc = "idle"
  /\ mode = "replay"
  /\ ~fresh
  /\ writes = 1
  /\ ret = "True"
  /\ Cardinality(stays) = 2

\* C3 as stated: every handle_webhook call returns True, whatever the hotel
\* id and whatever the outcome of the lookups.
C3_AlwaysReturnsTrue ==
  (pc = "idle" /\ op = "handle_webhook") => ret = "True"

\* C3 as amended: a handle_webhook call with a known hotel id returns True
\* whatever the outcome of the lookups; with an unknown hotel id it ends by
\* raising Hotel.DoesNotExist.
C3_ReturnsTrueForKnownHotel ==
  (pc = "idle" /\ op = "handle_webhook") =>
     IF id_hotel \in KnownHotelIds
       THEN ret = "True"
       ELSE ret = "raise Hotel.DoesNotExist"

C3_Witness ==
  /\ pc = "idle"
  /\ op = "handle_webhook"
  /\ id_hotel \in KnownHotelIds
  /\ failed_at = 1
  /\ ret = "True"

\* C4: stay_has_breakfast asks for the reservation of a stay and returns the
\* BreakfastIncluded flag of the details when the lookup succeeds, and None,
\* without raising, when the lookup fails with APIError.
C4_BreakfastOrNone ==
  [][ (pc \in {"return_breakfast", "except_breakfast"}) =>
        /\ \E s \in stays : s.pms_reservation_id = res_id
        /\ pc' = "idle"
        /\ IF pc = "except_breakfast"
             THEN ret' = "None"
             ELSE /\ ret' \in {"True", "False"}
                  /\ (ret' = "True") <=> res_details["BreakfastIncluded"] ]_vars

C4_Witness ==
  /\ pc = "idle"
  /\ op = "stay_has_breakfast"
  /\ ret = "None"

\* C5: after update_tomorrows_stays has returned True, every reservation the
\* service holds for tomorrow has a Stay in the store.
C5_TomorrowsStaysStored ==
  (pc = "idle" /\ op = "update_tomorrows_stays" /\ ret = "True") =>
     \A r \in pms_tomorrow : \E s \in stays : s.pms_reservation_id = r

\* C6: no step removes a Stay key: every (hotel, reservation id, guest id)
\* in the store before a step is in the store after it.
C6_StaysNeverDeleted ==
  [][ \A s \in stays : \E t \in stays' :
        /\ t.hotel = s.hotel
        /\ t.pms_reservation_id = s.pms_reservation_id
        /\ t.pms_guest_id = s.pms_guest_id ]_vars

C6_Witness ==
  /\ pc = "idle"
  /\ op = "handle_webhook"
  /\ ~fresh
  /\ writes = 1
  /\ Cardinality(stays) = 1

\* C7: stay_has_breakfast changes no Hotel, Stay or Guest record, and the
\* Stay and Guest records have exactly the fields of their models, none of
\* which holds the breakfast flag.
C7_BreakfastNotPersisted ==
  [][ /\ (op' = "stay_has_breakfast") =>
           (hotels' = hotels /\ stays' = stays /\ guests' = guests)
      /\ \A s \in stays' :
           DOMAIN s = {"id", "hotel", "pms_reservation_id", "pms_guest_id",
                       "guest", "checkin", "checkout", "status"}
      /\ \A g \in guests' : DOMAIN g = {"id", "phone", "name"} ]_vars

C7_Witness ==
  /\ pc = "idle"
  /\ op = "stay_has_breakfast"
  /\ ret = "True"
  /\ stays # {}
  /\ guests # {}

\* C8: get_pms returns an instance of PMS_Mews exactly for the names that
\* read "mews" in any letter case, and False for every other name; the name
\* property of that instance is "Mews".
C8_Registry ==
  (op \in {"get_pms", "name"}) =>
     /\ IF /\ Len(name_arg) = 4
           /\ name_arg[1] \in {"m", "M"}
           /\ name_arg[2] \in {"e", "E"}
           /\ name_arg[3] \in {"w", "W"}
           /\ name_arg[4] \in {"s", "S"}
          THEN adapter = PMS_Mews /\ ret = "instance"
          ELSE adapter = NoAdapter /\ ret = "False"
     /\ (op = "name") => name_out = <<"M", "e", "w", "s">>

C8_Witness ==
  /\ op = "name"
  /\ name_arg = <<"m", "E", "W", "s">>
  /\ name_out = <<"M", "e", "w", "s">>

\* C9: when a lookup of event k fails with APIError, the call returns True
\* at once, the store is as the events before k left it, with a Stay linked
\* to a Guest for each of them, and the lookups of an event write nothing.
C9_ErrorStopsTheLoop ==
  [][ /\ (failed_at = 0 /\ failed_at' # 0) =>
           /\ failed_at' = i
           /\ pc' = "idle"
           /\ ret' = "True"
           /\ stays' = stays
           /\ guests' = guests
           /\ writes' = i - 1
           /\ \A j \in 1 .. (i - 1) : \E s \in stays' :
                /\ s.hotel = hotel.id
                /\ s.pms_reservation_id = events[j]["Value"]["ReservationId"]
                /\ \E g \in guests' : g.id = s.guest
           /\ \A s \in stays' : s.guest # NoGuest
      /\ (pc \in {"get_reservation_details", "get_guest_details"}) =>
           (stays' = stays /\ guests' = guests) ]_vars

C9_Witness ==
  /\ pc = "idle"
  /\ op = "handle_webhook"
  /\ failed_at = 2
  /\ writes = 1
  /\ ret = "True"
  /\ stays # {}

\* C10: the writes of an event store a Guest with the fetched phone and name
\* and link the event's Stay to it, whether the phone is valid or not.
C10_InvalidPhoneStillStored ==
  [][ (pc = "update_or_create") =>
        \E g \in guests' :
          /\ g.phone = guest_details["Phone"]
          /\ g.name = guest_details["Name"]
          /\ \E s \in stays' :
               /\ s.hotel = hotel.id
               /\ s.pms_reservation_id = res_id
               /\ s.pms_guest_id = res_details["GuestId"]
               /\ s.guest = g.id ]_vars

C10_Witness ==
  /\ pc = "idle"
  /\ op = "handle_webhook"
  /\ writes >= 1
  /\ \E g \in guests :
       /\ ~validate_phone_number(g.phone)
       /\ \E s \in stays : s.guest = g.id

====
